---------------------------- MODULE Spec2Model ----------------------------
(***************************************************************************)
(* Model of the midi-types crate: the value primitives of message.rs and   *)
(* note.rs and the byte-at-a-time stream parser of parser.rs.              *)
(*                                                                         *)
(* A byte is a natural number in 0..255.  A value primitive (Channel,      *)
(* Note, Control, Program, Value7, QuarterFrame) is modelled by the u8 it   *)
(* wraps.  Value14(a, b) is modelled by its two fields in declaration order.*)
(* The constructors carry debug_assert! conditions, which only a build     *)
(* with debug assertions evaluates; the build is a parameter (dbg) of the  *)
(* operators and a variable (debug_assertions) of the state machine.       *)
(***************************************************************************)
EXTENDS Integers, Sequences, FiniteSets, TLC

(***************************************************************************)
(* Bounds of the input alphabet and of the length of a run of data bytes.  *)
(***************************************************************************)
MaxLowData == 0

MaxLowChan == 0

MaxRun == 4

\* The longest buffer handed to render, and the longest run of bytes after
\* the first byte of a buffer handed to parse.
MaxBufLen == 4
MaxTailLen == 2

\* The inputs of the conversions: the low fields of a Value14 pair, the low
\* u16 values and the i16 values around zero, next to the boundary values.
MaxLowPair == 15
MaxLowU16 == 300
MaxLowI16 == 130

\* The field of a state or message that the variant does not have.
NoVal == 0 - 1

(***************************************************************************)
(* Value primitives (message.rs, note.rs).  X_new is the stored value,     *)
(* X_new_ok the condition of the constructor's debug_assert!.              *)
(***************************************************************************)
\* Mutant: the channel keeps its low four bits.
Channel_new_wraps(channel) == channel % 16

Channel_new(channel) == IF channel > 15 THEN 15 ELSE channel

Channel_new_ok(channel) == channel <= 15

Control_new(control) == IF control > 127 THEN 127 ELSE control

Control_new_ok(control) == control < 127

Program_new(program) == IF program > 127 THEN 127 ELSE program

Program_new_ok(program) == program < 127

\* Mutant: the value saturates one short of the maximum.
Value7_new_saturates_126(value) == IF value > 126 THEN 126 ELSE value

Value7_new(value) == IF value > 127 THEN 127 ELSE value

Value7_new_ok(value) == value <= 127

QuarterFrame_new(frame) == IF frame > 127 THEN 127 ELSE frame

QuarterFrame_new_ok(frame) == frame <= 127

Note_new(val) == IF val > 127 THEN 127 ELSE val

Note_from_ok(note) == note <= 127

\* Value14::new(msb, lsb): the pair of fields (.0, .1).
Value14_new(msb, lsb) ==
    << IF msb >= 127 THEN 127 ELSE msb, IF lsb >= 127 THEN 127 ELSE lsb >>

Value14_new_ok(msb, lsb) == msb <= 127 /\ lsb <= 127

\* Mutant: the msb field is shifted by eight bits.
Value14_to_u16_shift_8(v) == (((v[1] * 256) % 65536) + v[2]) % 65536

\* u16::from(Value14), message.rs:339-343: ((value.0 as u16) << 7) + value.1,
\* for the Value14 with fields v = <<.0, .1>>.
Value14_to_u16(v) == (((v[1] * 128) % 65536) + v[2]) % 65536

\* <(u8, u8)>::from(Value14), message.rs:325-329.
Value14_to_pair(v) == << v[1], v[2] >>

\* Value14::from(u16), message.rs:331-337: the debug_assert! and the value,
\* Self(((value & 0x3f80) >> 7) as u8, (value & 0x007f) as u8) of the
\* clamped input.
Value14_from_u16_ok(value) == value <= 16383

Value14_from_u16(value) ==
    LET clamped == IF value > 16383 THEN 16383 ELSE value
    IN  << (clamped \div 128) % 128, clamped % 128 >>

\* x as i16 of an integer x: the low 16 bits in two's complement; and the
\* bits of an i16 as an unsigned number.
as_i16(x) == ((x + 32768) % 65536) - 32768
bits_i16(x) == x % 65536

\* value.clamp(-8192, 8191)
clamp_i16(value) ==
    IF value < 0 - 8192 THEN 0 - 8192
    ELSE IF value > 8191 THEN 8191 ELSE value

\* Value14::from(i16), message.rs:346-353: the two debug_assert!, whether
\* the addition of the bias leaves i16, and the value.
Value14_from_i16_ok(value) == value >= 0 - 8192 /\ value <= 8191

Value14_from_i16_overflows(value) == clamp_i16(value) + 8192 > 32767

Value14_from_i16(value) ==
    LET biased == bits_i16(as_i16(clamp_i16(value) + 8192))
    IN  Value14_new((biased \div 128) % 128, biased % 128)

\* Mutant: the bias taken off is 8191.
Value14_to_i16_bias_8191(v) == as_i16(as_i16(Value14_to_u16(v)) - 8191)

\* i16::from(Value14), message.rs:356-361: (v as i16) - 8192.
Value14_to_i16(v) == as_i16(as_i16(Value14_to_u16(v)) - 8192)

\* a / b of Rust on integers: the quotient rounded toward zero.
TruncDiv(a, b) == IF a >= 0 THEN a \div b ELSE 0 - ((0 - a) \div b)

\* x as i8 of a u8.
as_i8(x) == IF x > 127 THEN x - 256 ELSE x

\* The result of a conversion that may panic.
Built(v) == [res |-> "Ok", v |-> v]
Failed == [res |-> "Panicked", v |-> NoVal]

\* <(NoteName, i8)>::from(Note), note.rs:243-264; a NoteName is its
\* discriminant 0 (C) .. 11 (B), and the last arm of the match panics.
Note_to_name(note) ==
    LET octave == TruncDiv(as_i8(note), 12) - 2
        name == note % 12
    IN  IF name \in 0 .. 11 THEN Built(<< name, octave >>) ELSE Failed

\* x as u8, and the result of u8 arithmetic that wraps.
wrap_u8(x) == x % 256

\* Mutant: octave -1 is taken as the lowest one.
Note_with_name_from_octave_1m(name, octave) ==
    IF octave < 0 - 2 THEN Note_new(0)
    ELSE IF octave > 8 THEN Note_new(127)
    ELSE LET number == wrap_u8(name + wrap_u8(wrap_u8(octave + 1) * 12))
         IN  IF number > 127 THEN Note_new(127) ELSE Note_new(number)

\* Mutant: an octave below -2 is not clamped.
Note_with_name_low_octave_unclamped(name, octave) ==
    IF octave > 8 THEN Note_new(127)
    ELSE LET number == wrap_u8(name + wrap_u8(wrap_u8(octave + 2) * 12))
         IN  IF number > 127 THEN Note_new(127) ELSE Note_new(number)

\* Whether an addition or multiplication of Note::with_name leaves its
\* type: octave + 2 in i8, the product and the sum in u8.
Note_with_name_overflows(name, octave) ==
    /\ octave >= 0 - 2 /\ octave <= 8
    /\ \/ octave + 2 > 127
       \/ wrap_u8(octave + 2) * 12 > 255
       \/ name + wrap_u8(wrap_u8(octave + 2) * 12) > 255

\* Note::with_name, note.rs:179-193; Note::MIN is Note::new(0) and
\* Note::MAX is Note::new(127).
Note_with_name(name, octave) ==
    IF octave < 0 - 2 THEN Note_new(0)
    ELSE IF octave > 8 THEN Note_new(127)
    ELSE LET number == wrap_u8(name + wrap_u8(wrap_u8(octave + 2) * 12))
         IN  IF number > 127 THEN Note_new(127) ELSE Note_new(number)

(***************************************************************************)
(* MidiMessage: a record [type, ch, d1, d2]; a field the variant does not  *)
(* have is NoVal.  For PitchBendChange and SongPositionPointer d1 and d2   *)
(* are the fields .0 and .1 of the Value14.                                *)
(***************************************************************************)
Msg(type, ch, d1, d2) == [type |-> type, ch |-> ch, d1 |-> d1, d2 |-> d2]

\* Option::None as returned by parse_byte.
None == Msg("None", NoVal, NoVal, NoVal)

\* The call did not return: a debug assertion failed.
Panicked == Msg("Panicked", NoVal, NoVal, NoVal)

Unit(type) == Msg(type, NoVal, NoVal, NoVal)

\* The call returned Some(message).
IsMessage(o) == o.type \notin {"None", "Panicked"}

(***************************************************************************)
(* MidiParserState: a record [tag, ch, d].                                 *)
(***************************************************************************)
St(tag, ch, d) == [tag |-> tag, ch |-> ch, d |-> d]

Idle == St("Idle", NoVal, NoVal)

is_status_byte(byte) == (byte \div 128) % 2 = 1

is_system_message(byte) == (byte \div 16) % 16 = 15

\* (byte & 0xf0, Channel::from(byte & 0x0f))
split_message_and_channel(byte) ==
    << (byte \div 16) * 16, Channel_new(byte % 16) >>

\* The result of one call: the state after it, the value returned, and
\* whether the call panicked instead of returning.
Res(state, ret) == [state |-> state, ret |-> ret, panic |-> FALSE]

\* A conversion's debug assertion fails before the state is assigned.
Panic(state) == [state |-> state, ret |-> Panicked, panic |-> TRUE]

\* Mutant: a tune request leaves the state in place.
parse_system_common_f6_keeps(self, byte) ==
    CASE byte = 240 -> Res(Idle, None)
      [] byte = 241 -> Res(St("QuarterFrameRecvd", NoVal, NoVal), None)
      [] byte = 242 -> Res(St("SongPositionRecvd", NoVal, NoVal), None)
      [] byte = 243 -> Res(St("SongSelectRecvd", NoVal, NoVal), None)
      [] byte = 246 -> Res(self, Unit("TuneRequest"))
      [] byte = 247 -> Res(Idle, None)
      [] OTHER -> Res(Idle, None)

\* Mutant: the undefined status bytes leave the state in place.
parse_system_common_undefined_keeps(self, byte) ==
    CASE byte = 240 -> Res(Idle, None)
      [] byte = 241 -> Res(St("QuarterFrameRecvd", NoVal, NoVal), None)
      [] byte = 242 -> Res(St("SongPositionRecvd", NoVal, NoVal), None)
      [] byte = 243 -> Res(St("SongSelectRecvd", NoVal, NoVal), None)
      [] byte = 246 -> Res(Idle, Unit("TuneRequest"))
      [] byte = 247 -> Res(Idle, None)
      [] OTHER -> Res(self, None)

\* Mutant: song select enters the song position state.
parse_system_common_f3_as_f2(self, byte) ==
    CASE byte = 240 -> Res(Idle, None)
      [] byte = 241 -> Res(St("QuarterFrameRecvd", NoVal, NoVal), None)
      [] byte = 242 -> Res(St("SongPositionRecvd", NoVal, NoVal), None)
      [] byte = 243 -> Res(St("SongPositionRecvd", NoVal, NoVal), None)
      [] byte = 246 -> Res(Idle, Unit("TuneRequest"))
      [] byte = 247 -> Res(Idle, None)
      [] OTHER -> Res(Idle, None)

\* Mutant: the start of a system exclusive message leaves the state in place.
parse_system_common_f0_keeps(self, byte) ==
    CASE byte = 240 -> Res(self, None)
      [] byte = 241 -> Res(St("QuarterFrameRecvd", NoVal, NoVal), None)
      [] byte = 242 -> Res(St("SongPositionRecvd", NoVal, NoVal), None)
      [] byte = 243 -> Res(St("SongSelectRecvd", NoVal, NoVal), None)
      [] byte = 246 -> Res(Idle, Unit("TuneRequest"))
      [] byte = 247 -> Res(Idle, None)
      [] OTHER -> Res(Idle, None)

\* parser.rs:73-104 and 116-120: the system common status bytes 0xf0..0xf7;
\* the undefined ones (0xf4, 0xf5) take the default arm.
parse_system_common(self, byte) ==
    CASE byte = 240 -> Res(Idle, None)
      [] byte = 241 -> Res(St("QuarterFrameRecvd", NoVal, NoVal), None)
      [] byte = 242 -> Res(St("SongPositionRecvd", NoVal, NoVal), None)
      [] byte = 243 -> Res(St("SongSelectRecvd", NoVal, NoVal), None)
      [] byte = 246 -> Res(Idle, Unit("TuneRequest"))
      [] byte = 247 -> Res(Idle, None)
      [] OTHER -> Res(Idle, None)

\* Mutant: a timing clock resets the parser as a system common byte does.
parse_system_realtime_clock_resets(self, byte) ==
    CASE byte = 248 -> Res(Idle, Unit("TimingClock"))
      [] byte = 249 -> Res(self, None)
      [] byte = 250 -> Res(self, Unit("Start"))
      [] byte = 251 -> Res(self, Unit("Continue"))
      [] byte = 252 -> Res(self, Unit("Stop"))
      [] byte = 253 -> Res(self, None)
      [] byte = 254 -> Res(self, Unit("ActiveSensing"))
      [] OTHER -> Res(self, Unit("Reset"))

\* Mutant: the reserved byte 0xfd abandons the message in progress.
parse_system_realtime_reserved_resets(self, byte) ==
    CASE byte = 248 -> Res(self, Unit("TimingClock"))
      [] byte = 249 -> Res(self, None)
      [] byte = 250 -> Res(self, Unit("Start"))
      [] byte = 251 -> Res(self, Unit("Continue"))
      [] byte = 252 -> Res(self, Unit("Stop"))
      [] byte = 253 -> Res(Idle, None)
      [] byte = 254 -> Res(self, Unit("ActiveSensing"))
      [] OTHER -> Res(self, Unit("Reset"))

\* Mutant: a start message abandons the message in progress.
parse_system_realtime_start_resets(self, byte) ==
    CASE byte = 248 -> Res(self, Unit("TimingClock"))
      [] byte = 249 -> Res(self, None)
      [] byte = 250 -> Res(Idle, Unit("Start"))
      [] byte = 251 -> Res(self, Unit("Continue"))
      [] byte = 252 -> Res(self, Unit("Stop"))
      [] byte = 253 -> Res(self, None)
      [] byte = 254 -> Res(self, Unit("ActiveSensing"))
      [] OTHER -> Res(self, Unit("Reset"))

\* parser.rs:106-114: the system realtime status bytes 0xf8..0xff.
parse_system_realtime(self, byte) ==
    CASE byte = 248 -> Res(self, Unit("TimingClock"))
      [] byte = 249 -> Res(self, None)
      [] byte = 250 -> Res(self, Unit("Start"))
      [] byte = 251 -> Res(self, Unit("Continue"))
      [] byte = 252 -> Res(self, Unit("Stop"))
      [] byte = 253 -> Res(self, None)
      [] byte = 254 -> Res(self, Unit("ActiveSensing"))
      [] OTHER -> Res(self, Unit("Reset"))

\* parser.rs:72-121: the match on a system status byte.
parse_system_byte(self, byte) ==
    IF byte >= 248
    THEN parse_system_realtime(self, byte)
    ELSE parse_system_common(self, byte)

\* Mutant: a note-on status enters the note-off state.
parse_channel_voice_byte_on_as_off(self, byte, dbg) ==
    LET message == split_message_and_channel(byte)[1]
        channel == split_message_and_channel(byte)[2]
    IN  CASE message = 128 -> Res(St("NoteOffRecvd", channel, NoVal), None)
          [] message = 144 -> Res(St("NoteOffRecvd", channel, NoVal), None)
          [] message = 160 -> Res(St("KeyPressureRecvd", channel, NoVal), None)
          [] message = 176 -> Res(St("ControlChangeRecvd", channel, NoVal), None)
          [] message = 192 -> Res(St("ProgramChangeRecvd", channel, NoVal), None)
          [] message = 208 -> Res(St("ChannelPressureRecvd", channel, NoVal), None)
          [] message = 224 -> Res(St("PitchBendRecvd", channel, NoVal), None)
          [] OTHER -> Res(self, None)

\* Mutant: a status byte is ignored while a data byte is held.
parse_channel_voice_byte_ignored_mid_message(self, byte, dbg) ==
    LET message == split_message_and_channel(byte)[1]
        channel == split_message_and_channel(byte)[2]
    IN  IF self.d # NoVal THEN Res(self, None)
        ELSE CASE message = 128 -> Res(St("NoteOffRecvd", channel, NoVal), None)
               [] message = 144 -> Res(St("NoteOnRecvd", channel, NoVal), None)
               [] message = 160 -> Res(St("KeyPressureRecvd", channel, NoVal), None)
               [] message = 176 -> Res(St("ControlChangeRecvd", channel, NoVal), None)
               [] message = 192 -> Res(St("ProgramChangeRecvd", channel, NoVal), None)
               [] message = 208 -> Res(St("ChannelPressureRecvd", channel, NoVal), None)
               [] message = 224 -> Res(St("PitchBendRecvd", channel, NoVal), None)
               [] OTHER -> Res(self, None)

\* Mutant: the whole status byte is kept as the channel.
parse_channel_voice_byte_whole_byte_channel(self, byte, dbg) ==
    LET message == split_message_and_channel(byte)[1]
        channel == byte
    IN  CASE message = 128 -> Res(St("NoteOffRecvd", channel, NoVal), None)
          [] message = 144 -> Res(St("NoteOnRecvd", channel, NoVal), None)
          [] message = 160 -> Res(St("KeyPressureRecvd", channel, NoVal), None)
          [] message = 176 -> Res(St("ControlChangeRecvd", channel, NoVal), None)
          [] message = 192 -> Res(St("ProgramChangeRecvd", channel, NoVal), None)
          [] message = 208 -> Res(St("ChannelPressureRecvd", channel, NoVal), None)
          [] message = 224 -> Res(St("PitchBendRecvd", channel, NoVal), None)
          [] OTHER -> Res(self, None)

\* parser.rs:122-158, the channel voice status bytes.
parse_channel_voice_byte(self, byte, dbg) ==
    LET message == split_message_and_channel(byte)[1]
        channel == split_message_and_channel(byte)[2]
    IN  IF dbg /\ ~Channel_new_ok(byte % 16) THEN Panic(self)
        ELSE CASE message = 128 -> Res(St("NoteOffRecvd", channel, NoVal), None)
               [] message = 144 -> Res(St("NoteOnRecvd", channel, NoVal), None)
               [] message = 160 -> Res(St("KeyPressureRecvd", channel, NoVal), None)
               [] message = 176 -> Res(St("ControlChangeRecvd", channel, NoVal), None)
               [] message = 192 -> Res(St("ProgramChangeRecvd", channel, NoVal), None)
               [] message = 208 -> Res(St("ChannelPressureRecvd", channel, NoVal), None)
               [] message = 224 -> Res(St("PitchBendRecvd", channel, NoVal), None)
               [] OTHER -> Res(self, None)

\* parser.rs:160-224, a data byte, dispatched on the state.
parse_data_byte(self, byte, dbg) ==
    LET channel == self.ch
        tag == self.tag
    IN  CASE tag = "NoteOffRecvd" ->
               IF dbg /\ ~Note_from_ok(byte) THEN Panic(self)
               ELSE Res(St("NoteOffNoteRecvd", channel, Note_new(byte)), None)
          [] tag = "NoteOffNoteRecvd" ->
               IF dbg /\ ~Value7_new_ok(byte)
               THEN Panic(St("NoteOffRecvd", channel, NoVal))
               ELSE Res(St("NoteOffRecvd", channel, NoVal),
                        Msg("NoteOff", channel, self.d, Value7_new(byte)))
          [] tag = "NoteOnRecvd" ->
               IF dbg /\ ~Note_from_ok(byte) THEN Panic(self)
               ELSE Res(St("NoteOnNoteRecvd", channel, Note_new(byte)), None)
          [] tag = "NoteOnNoteRecvd" ->
               IF dbg /\ ~Value7_new_ok(byte)
               THEN Panic(St("NoteOnRecvd", channel, NoVal))
               ELSE Res(St("NoteOnRecvd", channel, NoVal),
                        Msg("NoteOn", channel, self.d, Value7_new(byte)))
          [] tag = "KeyPressureRecvd" ->
               IF dbg /\ ~Note_from_ok(byte) THEN Panic(self)
               ELSE Res(St("KeyPressureNoteRecvd", channel, Note_new(byte)), None)
          [] tag = "KeyPressureNoteRecvd" ->
               IF dbg /\ ~Value7_new_ok(byte)
               THEN Panic(St("KeyPressureRecvd", channel, NoVal))
               ELSE Res(St("KeyPressureRecvd", channel, NoVal),
                        Msg("KeyPressure", channel, self.d, Value7_new(byte)))
          [] tag = "ControlChangeRecvd" ->
               IF dbg /\ ~Control_new_ok(byte) THEN Panic(self)
               ELSE Res(St("ControlChangeControlRecvd", channel, Control_new(byte)),
                        None)
          [] tag = "ControlChangeControlRecvd" ->
               IF dbg /\ ~Value7_new_ok(byte)
               THEN Panic(St("ControlChangeRecvd", channel, NoVal))
               ELSE Res(St("ControlChangeRecvd", channel, NoVal),
                        Msg("ControlChange", channel, self.d, Value7_new(byte)))
          [] tag = "ProgramChangeRecvd" ->
               IF dbg /\ ~Program_new_ok(byte) THEN Panic(self)
               ELSE Res(self, Msg("ProgramChange", channel, Program_new(byte), NoVal))
          [] tag = "ChannelPressureRecvd" ->
               IF dbg /\ ~Value7_new_ok(byte) THEN Panic(self)
               ELSE Res(self, Msg("ChannelPressure", channel, Value7_new(byte), NoVal))
          [] tag = "PitchBendRecvd" ->
               Res(St("PitchBendFirstByteRecvd", channel, byte), None)
          [] tag = "PitchBendFirstByteRecvd" ->
               IF dbg /\ ~Value14_new_ok(self.d, byte)
               THEN Panic(St("PitchBendRecvd", channel, NoVal))
               ELSE Res(St("PitchBendRecvd", channel, NoVal),
                        Msg("PitchBendChange", channel,
                            Value14_new(self.d, byte)[1], Value14_new(self.d, byte)[2]))
          [] tag = "QuarterFrameRecvd" ->
               IF dbg /\ ~QuarterFrame_new_ok(byte) THEN Panic(self)
               ELSE Res(self, Msg("QuarterFrame", NoVal, QuarterFrame_new(byte), NoVal))
          [] tag = "SongPositionRecvd" ->
               Res(St("SongPositionLsbRecvd", NoVal, byte), None)
          [] tag = "SongPositionLsbRecvd" ->
               IF dbg /\ ~Value14_new_ok(self.d, byte)
               THEN Panic(St("SongPositionRecvd", NoVal, NoVal))
               ELSE Res(St("SongPositionRecvd", NoVal, NoVal),
                        Msg("SongPositionPointer", NoVal,
                            Value14_new(self.d, byte)[1], Value14_new(self.d, byte)[2]))
          [] tag = "SongSelectRecvd" ->
               IF dbg /\ ~Value7_new_ok(byte) THEN Panic(self)
               ELSE Res(self, Msg("SongSelect", NoVal, Value7_new(byte), NoVal))
          [] OTHER -> Res(self, None)

\* MidiByteStreamParser::parse_byte, parser.rs:69-226.
parse_byte(self, byte, dbg) ==
    IF is_status_byte(byte)
    THEN IF is_system_message(byte)
         THEN parse_system_byte(self, byte)
         ELSE parse_channel_voice_byte(self, byte, dbg)
    ELSE parse_data_byte(self, byte, dbg)

\* Mutant: a new parser starts with a note-on status pending.
new_pending == St("NoteOnRecvd", 0, NoVal)

\* MidiByteStreamParser::new, parser.rs:60-64.
new == Idle

(***************************************************************************)
(* The buffer codec of midi.rs: MidiMessage::len, render and parse.        *)
(*                                                                         *)
(* midi.rs declares its own MidiMessage and field types.  A message is the *)
(* same record Msg(type, ch, d1, d2); for PitchBendChange and              *)
(* SongPositionPointer d1 and d2 are the fields .0 and .1 of the Value14.  *)
(* A buffer is a sequence of bytes, buf[i] of the code being buf[i + 1].   *)
(* The conversions of midi.rs use assert!, which is evaluated in every     *)
(* build.                                                                  *)
(***************************************************************************)

\* Bits of a u8, and the operators | and & on u8.
Bit(x, i) == (x \div (2 ^ i)) % 2

RECURSIVE BitOrFrom(_, _, _)
BitOrFrom(a, b, i) ==
    IF i > 7 THEN 0
    ELSE (IF Bit(a, i) = 1 \/ Bit(b, i) = 1 THEN 2 ^ i ELSE 0)
         + BitOrFrom(a, b, i + 1)

BitOr(a, b) == BitOrFrom(a, b, 0)

RECURSIVE BitAndFrom(_, _, _)
BitAndFrom(a, b, i) ==
    IF i > 7 THEN 0
    ELSE (IF Bit(a, i) = 1 /\ Bit(b, i) = 1 THEN 2 ^ i ELSE 0)
         + BitAndFrom(a, b, i + 1)

BitAnd(a, b) == BitAndFrom(a, b, 0)

\* midi.rs:327-332, 345-350, 362-367, 379-384: the assert! of From<u8> for
\* Note, Channel, Control and Program.
midi_Note_from_ok(note) == note <= 127
midi_Channel_from_ok(channel) == channel <= 15
midi_Control_from_ok(control) == control <= 127
midi_Program_from_ok(value) == value <= 127

\* midi.rs:413-423: Value14 from and into a pair (.0, .1).
midi_Value14_from(v0, v1) == << v0, v1 >>
midi_Value14_into(v) == << v[1], v[2] >>

\* midi.rs:425-429: Value14 from u16,
\* Value14(((value & 0x3f80) >> 7) as u8, (value & 0x007f) as u8).
midi_Value14_from_u16(value) == << (value \div 128) % 128, value % 128 >>

\* midi.rs:431-435: Value14 into u16, (self.0 as u16) * 128 + self.1 as u16.
midi_Value14_into_u16(v) == (v[1] * 128 + v[2]) % 65536

\* Mutant: a program change is counted as three bytes.
len_program_change_3(m) ==
    CASE m.type \in {"NoteOff", "NoteOn", "KeyPressure", "ControlChange",
                     "PitchBendChange", "SongPositionPointer",
                     "ProgramChange"} -> 3
      [] m.type \in {"ChannelPressure", "QuarterFrame", "SongSelect"} -> 2
      [] OTHER -> 1

\* MidiMessage::len, midi.rs:130-150.
len(m) ==
    CASE m.type \in {"NoteOff", "NoteOn", "KeyPressure", "ControlChange",
                     "PitchBendChange", "SongPositionPointer"} -> 3
      [] m.type \in {"ProgramChange", "ChannelPressure", "QuarterFrame",
                     "SongSelect"} -> 2
      [] m.type \in {"TuneRequest", "TimingClock", "Start", "Continue", "Stop",
                     "ActiveSensing", "Reset"} -> 1

\* Result<usize, RenderError> together with the buffer after the call.
RenderOk(n, buf) == [res |-> "Ok", n |-> n, buf |-> buf]
RenderErr(buf) == [res |-> "BufferTooShort", n |-> NoVal, buf |-> buf]

\* for (o, i) in buf.iter_mut().zip(&[...]) { *o = *i }
WriteZip(buf, bytes) ==
    [i \in 1 .. Len(buf) |-> IF i <= Len(bytes) THEN bytes[i] ELSE buf[i]]

\* Mutant: the two data bytes are written in the other order.
chan3byte_swapped(buf, status, chan, d0, d1) ==
    IF Len(buf) >= 3
    THEN RenderOk(3, WriteZip(buf, << BitOr(status, chan), d1, d0 >>))
    ELSE RenderErr(buf)

\* MidiMessage::chan3byte, midi.rs:153-170.
chan3byte(buf, status, chan, d0, d1) ==
    IF Len(buf) >= 3
    THEN RenderOk(3, WriteZip(buf, << BitOr(status, chan), d0, d1 >>))
    ELSE RenderErr(buf)

\* Mutant: a third byte, zero, is written after the two of the message.
chan2byte_pads_zero(buf, status, chan, d0) ==
    IF Len(buf) >= 2
    THEN RenderOk(2, WriteZip(buf, << BitOr(status, chan), d0, 0 >>))
    ELSE RenderErr(buf)

\* MidiMessage::chan2byte, midi.rs:173-189.
chan2byte(buf, status, chan, d0) ==
    IF Len(buf) >= 2
    THEN RenderOk(2, WriteZip(buf, << BitOr(status, chan), d0 >>))
    ELSE RenderErr(buf)

\* Mutant: a two-byte buffer is taken to hold one byte only.
chan1byte_needs_2(buf, status) ==
    IF Len(buf) >= 2
    THEN RenderOk(1, WriteZip(buf, << status >>))
    ELSE RenderErr(buf)

\* MidiMessage::chan1byte, midi.rs:192-199.
chan1byte(buf, status) ==
    IF Len(buf) >= 1
    THEN RenderOk(1, WriteZip(buf, << status >>))
    ELSE RenderErr(buf)

\* MidiMessage::render, midi.rs:202-228.
render(self, buf) ==
    CASE self.type = "NoteOff" -> chan3byte(buf, 128, self.ch, self.d1, self.d2)
      [] self.type = "NoteOn" -> chan3byte(buf, 144, self.ch, self.d1, self.d2)
      [] self.type = "KeyPressure" ->
            chan3byte(buf, 160, self.ch, self.d1, self.d2)
      [] self.type = "ControlChange" ->
            chan3byte(buf, 176, self.ch, self.d1, self.d2)
      [] self.type = "PitchBendChange" ->
            LET v == midi_Value14_into(<< self.d1, self.d2 >>)
            IN  chan3byte(buf, 224, self.ch, v[1], v[2])
      [] self.type = "SongPositionPointer" ->
            LET v == midi_Value14_into(<< self.d1, self.d2 >>)
            IN  chan3byte(buf, 242, 0, v[1], v[2])
      [] self.type = "ProgramChange" -> chan2byte(buf, 192, self.ch, self.d1)
      [] self.type = "ChannelPressure" -> chan2byte(buf, 208, self.ch, self.d1)
      [] self.type = "QuarterFrame" -> chan2byte(buf, 241, 0, self.d1)
      [] self.type = "SongSelect" -> chan2byte(buf, 243, 0, self.d1)
      [] self.type = "TuneRequest" -> chan1byte(buf, 246)
      [] self.type = "TimingClock" -> chan1byte(buf, 248)
      [] self.type = "Start" -> chan1byte(buf, 250)
      [] self.type = "Continue" -> chan1byte(buf, 251)
      [] self.type = "Stop" -> chan1byte(buf, 252)
      [] self.type = "ActiveSensing" -> chan1byte(buf, 254)
      [] self.type = "Reset" -> chan1byte(buf, 255)

\* Result<MidiMessage, ParseError>, or the panic that ended the call: an
\* index past the end of the slice, or a failed assert!.
ParseOk(msg) == [res |-> "Ok", msg |-> msg]
ParseErr(e) == [res |-> e, msg |-> None]
ParsePanic(why) == [res |-> "Panicked", msg |-> Unit(why)]

\* buf[i]: the byte, or OutOfBounds where the index panics.
OutOfBounds == 0 - 2
At(buf, i) == IF i < Len(buf) THEN buf[i + 1] ELSE OutOfBounds

\* Mutant: one byte fewer than the message needs is accepted.
check_len_off_by_one(buf, n, func) ==
    IF Len(buf) >= n - 1 THEN func ELSE ParseErr("BufferTooShort")

\* MidiMessage::check_len, midi.rs:231-241; func is the closure's result.
check_len(buf, n, func) ==
    IF Len(buf) >= n THEN func ELSE ParseErr("BufferTooShort")

\* The closure `chan` of parse, midi.rs:244.
chan(status) == BitAnd(status, 15)

\* The check that the conversion of a data byte into the field type makes.
from_ok(field, value) ==
    CASE field = "Note" -> midi_Note_from_ok(value)
      [] field = "Control" -> midi_Control_from_ok(value)
      [] field = "Program" -> midi_Program_from_ok(value)
      [] field \in {"Value7", "QuarterFrame"} -> TRUE

\* The closures of parse for the two-byte messages, midi.rs:256-265:
\* the channel, then buf[1], then its conversion.
closure2(buf, type, ch, field) ==
    IF ch # NoVal /\ ~midi_Channel_from_ok(ch) THEN ParsePanic("AssertionFailed")
    ELSE IF At(buf, 1) = OutOfBounds THEN ParsePanic("IndexOutOfBounds")
    ELSE IF ~from_ok(field, At(buf, 1)) THEN ParsePanic("AssertionFailed")
    ELSE ParseOk(Msg(type, ch, At(buf, 1), NoVal))

\* The closures of parse for the three-byte messages, midi.rs:268-304:
\* the channel, then buf[1] and its conversion, then buf[2] (for a Value14
\* both bytes are read before the unchecked conversion).
closure3(buf, type, ch, field) ==
    IF ch # NoVal /\ ~midi_Channel_from_ok(ch) THEN ParsePanic("AssertionFailed")
    ELSE IF At(buf, 1) = OutOfBounds THEN ParsePanic("IndexOutOfBounds")
    ELSE IF ~from_ok(field, At(buf, 1)) THEN ParsePanic("AssertionFailed")
    ELSE IF At(buf, 2) = OutOfBounds THEN ParsePanic("IndexOutOfBounds")
    ELSE ParseOk(Msg(type, ch, At(buf, 1), At(buf, 2)))

\* The closures for PitchBendChange and SongPositionPointer,
\* midi.rs:296-304: Value14::from((buf[1], buf[2])).
closure14(buf, type, ch) ==
    IF ch # NoVal /\ ~midi_Channel_from_ok(ch) THEN ParsePanic("AssertionFailed")
    ELSE IF At(buf, 1) = OutOfBounds \/ At(buf, 2) = OutOfBounds
    THEN ParsePanic("IndexOutOfBounds")
    ELSE ParseOk(Msg(type, ch, midi_Value14_from(At(buf, 1), At(buf, 2))[1],
                     midi_Value14_from(At(buf, 1), At(buf, 2))[2]))

\* MidiMessage::parse, midi.rs:243-308.
parse(buf) ==
    LET s == At(buf, 0)
    IN  CASE s = OutOfBounds -> ParsePanic("IndexOutOfBounds")
          [] s = 246 -> ParseOk(Unit("TuneRequest"))
          [] s = 248 -> ParseOk(Unit("TimingClock"))
          [] s = 250 -> ParseOk(Unit("Start"))
          [] s = 251 -> ParseOk(Unit("Continue"))
          [] s = 252 -> ParseOk(Unit("Stop"))
          [] s = 254 -> ParseOk(Unit("ActiveSensing"))
          [] s = 255 -> ParseOk(Unit("Reset"))
          [] s \in 192 .. 207 ->
                check_len(buf, 2, closure2(buf, "ProgramChange", chan(s), "Program"))
          [] s \in 208 .. 223 ->
                check_len(buf, 2, closure2(buf, "ChannelPressure", chan(s),
                                           "Value7"))
          [] s = 241 ->
                check_len(buf, 2, closure2(buf, "QuarterFrame", NoVal,
                                           "QuarterFrame"))
          [] s = 243 ->
                check_len(buf, 2, closure2(buf, "SongSelect", NoVal, "Value7"))
          [] s \in 128 .. 143 ->
                check_len(buf, 3, closure3(buf, "NoteOff", chan(s), "Note"))
          [] s \in 144 .. 159 ->
                check_len(buf, 3, closure3(buf, "NoteOn", chan(s), "Note"))
          [] s \in 160 .. 175 ->
                check_len(buf, 3, closure3(buf, "KeyPressure", chan(s), "Note"))
          [] s \in 176 .. 191 ->
                check_len(buf, 3, closure3(buf, "ControlChange", chan(s), "Control"))
          [] s \in 224 .. 239 ->
                check_len(buf, 3, closure14(buf, "PitchBendChange", chan(s)))
          [] s = 242 ->
                check_len(buf, 3, closure14(buf, "SongPositionPointer", NoVal))
          [] OTHER -> ParseErr("MessageNotFound")

\* TryFrom<&[u8]> for MidiMessage, midi.rs:311-320.
try_from(buf) ==
    IF Len(buf) = 0 THEN ParseErr("BufferTooShort") ELSE parse(buf)

(***************************************************************************)
(* The state machine: one parser instance fed one byte per step.           *)
(*                                                                         *)
(* state, panicked   the parser (its MidiParserState; whether a call has    *)
(*                   panicked, after which no further call is made)        *)
(* debug_assertions  the build: whether debug_assert! is evaluated         *)
(* byte, out, prev   the last call: its argument, its result, and the      *)
(*                   state it was made in                                  *)
(* lastStatus        the most recent status byte fed, or NoVal             *)
(* dataCount         the number of data bytes fed since lastStatus         *)
(* prevData          the data byte fed before the most recent data byte,   *)
(*                   since lastStatus, or NoVal                            *)
(* pending           the channel voice status byte s, when the bytes fed   *)
(*                   since s are real-time bytes followed by at most one   *)
(*                   data byte (the last byte fed); NoVal otherwise        *)
(* shadow, shadowOut a second parser, fed the same bytes except those      *)
(*                   that InsertRealTime feeds to the first one alone      *)
(* inserted          whether the last byte was fed by InsertRealTime       *)
(* runStatus         the most recent status byte below 0xF8 fed, or NoVal  *)
(* runParity         the number of data bytes fed since runStatus, mod 2   *)
(* runData, runPrev  the most recent data byte fed since runStatus and the *)
(*                   data byte fed before it, or NoVal                     *)
(* fed, emitted      the number of rendered bytes fed to the parser, and   *)
(*                   the number of calls among them that returned a       *)
(*                   message                                               *)
(*                                                                         *)
(* The buffer codec is applied to one message or one buffer per behaviour: *)
(*                                                                         *)
(* pc                "parser" while the streaming parser is run; else the  *)
(*                   codec call to make next: "render", "parse", and then  *)
(*                   "rendered", "parsed"                                  *)
(* m                 the message rendered                                  *)
(* buffer            the buffer rendered into, or the buffer to parse      *)
(* before            the contents of the buffer when render was called     *)
(* rendered          the result of render(m, buffer)                       *)
(* input             the slice handed to try_from                          *)
(* parsed            the result of try_from(input)                         *)
(*                                                                         *)
(* The value primitives are applied to one input per behaviour:            *)
(*                                                                         *)
(* ctor, arg         the constructor or conversion called and its argument *)
(* val               its result: the value built, or the panic             *)
(* back              the value converted back, and the type converted to   *)
(* again             the Note built by with_name from the name and octave  *)
(*                   in back                                               *)
(***************************************************************************)
VARIABLES state, panicked, debug_assertions, byte, out, prev,
          lastStatus, dataCount, prevData, pending,
          shadow, shadowOut, inserted,
          runStatus, runParity, runData, runPrev, fed, emitted,
          pc, m, buffer, before, rendered, input, parsed,
          ctor, arg, val, back, again

streamVars == << runStatus, runParity, runData, runPrev >>

feedVars == << fed, emitted >>

parserVars == << state, panicked, byte, out, prev,
                 lastStatus, dataCount, prevData, pending,
                 shadow, shadowOut, inserted, streamVars, feedVars >>

codecVars == << pc, m, buffer, before, rendered, input, parsed >>

valueVars == << ctor, arg, val, back, again >>

vars == << state, panicked, debug_assertions, byte, out, prev,
           lastStatus, dataCount, prevData, pending,
           shadow, shadowOut, inserted,
           runStatus, runParity, runData, runPrev, fed, emitted,
           pc, m, buffer, before, rendered, input, parsed,
           ctor, arg, val, back, again >>

Channels == (0 .. MaxLowChan) \cup {2, 15}

\* Data bytes: the low ones, 0x34 and 0x76 of the documented scenarios, the
\* top two.
DataBytes == (0 .. MaxLowData) \cup {52, 118, 126, 127}

ChannelVoiceStatus == { hi * 16 + c : hi \in 8 .. 14, c \in Channels }

SystemCommon == 240 .. 247

RealTime == 248 .. 255

\* No render and no parse has been called.
NotRendered == [res |-> "None", n |-> NoVal, buf |-> << >>]
NotParsed == [res |-> "None", msg |-> None]

\* No constructor and no conversion has been called.
NotBuilt == [res |-> "None", v |-> NoVal]
NotConverted == [to |-> "None", res |-> "None", v |-> NoVal]

\* No byte has been fed.
StreamIdle ==
    /\ runStatus = NoVal
    /\ runParity = 0
    /\ runData = NoVal
    /\ runPrev = NoVal
    /\ fed = 0
    /\ emitted = 0

ValueIdle ==
    /\ ctor = "None"
    /\ arg = NoVal
    /\ val = NotBuilt
    /\ back = NotConverted
    /\ again = NotBuilt

Init ==
    /\ ValueIdle
    /\ pc = "parser"
    /\ m = None
    /\ buffer = << >>
    /\ before = << >>
    /\ rendered = NotRendered
    /\ input = << >>
    /\ parsed = NotParsed
    /\ state = new
    /\ panicked = FALSE
    /\ debug_assertions \in BOOLEAN
    /\ byte = NoVal
    /\ out = None
    /\ prev = new
    /\ lastStatus = NoVal
    /\ dataCount = 0
    /\ prevData = NoVal
    /\ pending = NoVal
    /\ shadow = new
    /\ shadowOut = None
    /\ inserted = FALSE
    /\ StreamIdle

\* One call parse_byte(b) on the parser.
Call(b) ==
    LET r == parse_byte(state, b, debug_assertions)
    IN  /\ ~panicked
        /\ state' = r.state
        /\ out' = r.ret
        /\ panicked' = r.panic
        /\ byte' = b
        /\ prev' = state
        /\ UNCHANGED debug_assertions
        /\ UNCHANGED codecVars
        /\ UNCHANGED valueVars

\* The record of the bytes fed since the last status byte.
Track(b) ==
    /\ lastStatus' = IF is_status_byte(b) THEN b ELSE lastStatus
    /\ dataCount' = IF is_status_byte(b) THEN 0 ELSE dataCount + 1
    /\ prevData' = IF is_status_byte(b) \/ dataCount = 0 THEN NoVal ELSE byte
    /\ pending' = IF is_status_byte(b) /\ ~is_system_message(b) THEN b
                   ELSE IF is_status_byte(b) /\ b < 248 THEN NoVal
                   ELSE IF byte \in 0 .. 127 THEN NoVal
                   ELSE pending

\* The same call on the shadow parser, unless the byte is an inserted one.
Mirror(b, ins) ==
    LET s == parse_byte(shadow, b, debug_assertions)
    IN  /\ shadow' = IF ins THEN shadow ELSE s.state
        /\ shadowOut' = IF ins THEN shadowOut ELSE s.ret
        /\ inserted' = ins

Feed(b) ==
    /\ Call(b)
    /\ Track(b)
    /\ UNCHANGED << shadow, shadowOut, inserted, streamVars, feedVars >>

\* The four classes of byte that parse_byte tells apart.
FeedData(b) == ~is_status_byte(b) /\ dataCount < MaxRun /\ Feed(b)

FeedChannelVoice(b) ==
    is_status_byte(b) /\ ~is_system_message(b) /\ Feed(b)

FeedSystemCommon(b) ==
    is_status_byte(b) /\ is_system_message(b) /\ b < 248 /\ Feed(b)

FeedRealTime(b) ==
    is_status_byte(b) /\ is_system_message(b) /\ b >= 248 /\ Feed(b)

Next ==
    \/ \E b \in DataBytes : FeedData(b)
    \/ \E b \in ChannelVoiceStatus : FeedChannelVoice(b)
    \/ \E b \in SystemCommon : FeedSystemCommon(b)
    \/ \E b \in RealTime : FeedRealTime(b)

Spec == Init /\ [][Next]_vars

(***************************************************************************)
(* Two runs side by side: the shadow parser is fed a byte sequence S, the  *)
(* parser is fed S with real-time bytes inserted at arbitrary positions.   *)
(***************************************************************************)
FeedBoth(b) ==
    /\ Call(b)
    /\ Mirror(b, FALSE)
    /\ UNCHANGED << lastStatus, dataCount, prevData, pending, streamVars, feedVars >>

InsertRealTime(b) ==
    /\ b >= 248
    /\ Call(b)
    /\ Mirror(b, TRUE)
    /\ UNCHANGED << lastStatus, dataCount, prevData, pending, streamVars, feedVars >>

NextInterleave ==
    \/ \E b \in DataBytes \cup ChannelVoiceStatus \cup SystemCommon \cup RealTime :
          FeedBoth(b)
    \/ \E b \in RealTime : InsertRealTime(b)

SpecInterleave == Init /\ [][NextInterleave]_vars

(***************************************************************************)
(* One parser fed an arbitrary byte sequence, with the record of the       *)
(* message in progress: the status byte it started with and the data bytes *)
(* received for it; real-time bytes leave the record alone.                *)
(***************************************************************************)
TrackRun(b) ==
    LET starts == is_status_byte(b) /\ b < 248
        data == ~is_status_byte(b)
    IN  /\ runStatus' = IF starts THEN b ELSE runStatus
        /\ runParity' = IF starts THEN 0
                         ELSE IF data THEN 1 - runParity
                         ELSE runParity
        /\ runData' = IF starts THEN NoVal ELSE IF data THEN b ELSE runData
        /\ runPrev' = IF starts THEN NoVal ELSE IF data THEN runData ELSE runPrev

Stream(b) ==
    /\ Call(b)
    /\ TrackRun(b)
    /\ UNCHANGED << lastStatus, dataCount, prevData, pending,
                    shadow, shadowOut, inserted, feedVars >>

StreamData(b) == ~is_status_byte(b) /\ Stream(b)

StreamChannelVoice(b) ==
    is_status_byte(b) /\ ~is_system_message(b) /\ Stream(b)

StreamSystemCommon(b) ==
    is_status_byte(b) /\ is_system_message(b) /\ b < 248 /\ Stream(b)

StreamRealTime(b) ==
    is_status_byte(b) /\ is_system_message(b) /\ b >= 248 /\ Stream(b)

NextStream ==
    \/ \E b \in DataBytes : StreamData(b)
    \/ \E b \in ChannelVoiceStatus : StreamChannelVoice(b)
    \/ \E b \in SystemCommon : StreamSystemCommon(b)
    \/ \E b \in RealTime : StreamRealTime(b)

SpecStream == Init /\ [][NextStream]_vars

(***************************************************************************)
(* The buffer codec: render a message into a buffer and parse the buffer   *)
(* back, or parse a buffer as it is.                                       *)
(***************************************************************************)

\* The values of the unchecked field types Value7, Value14 and QuarterFrame:
\* any u8 converts; 0xFF stands for the ones above 127.
Values7 == DataBytes \cup {255}

\* The messages of the 17 variants.  Channel, Note, Control and Program are
\* built through their asserting conversions only.
Messages ==
    { Msg(t, c, d1, d2) :
        t \in {"NoteOff", "NoteOn", "KeyPressure", "ControlChange"},
        c \in Channels, d1 \in DataBytes, d2 \in Values7 }
    \cup { Msg("ProgramChange", c, d1, NoVal) : c \in Channels, d1 \in DataBytes }
    \cup { Msg("ChannelPressure", c, d1, NoVal) : c \in Channels, d1 \in Values7 }
    \cup { Msg("PitchBendChange", c, d1, d2) :
            c \in Channels, d1 \in Values7, d2 \in Values7 }
    \cup { Msg(t, NoVal, d1, NoVal) :
            t \in {"QuarterFrame", "SongSelect"}, d1 \in Values7 }
    \cup { Msg("SongPositionPointer", NoVal, d1, d2) :
            d1 \in Values7, d2 \in Values7 }
    \cup { Unit(t) : t \in {"TuneRequest", "TimingClock", "Start", "Continue",
                            "Stop", "ActiveSensing", "Reset"} }

\* The buffers rendered into: every length, filled with one byte.
FillBytes == {0, 144, 255}
Buffers == { [i \in 1 .. n |-> f] : n \in 0 .. MaxBufLen, f \in FillBytes }

\* The buffers parsed as they are: empty, or any first byte followed by up
\* to MaxTailLen bytes.
FirstBytes == ChannelVoiceStatus \cup SystemCommon \cup RealTime \cup DataBytes
Tails == UNION { [1 .. n -> Values7] : n \in 0 .. MaxTailLen }
RawBuffers == { << >> } \cup { << s >> \o t : s \in FirstBytes, t \in Tails }

InitCodec ==
    /\ ValueIdle
    /\ state = new
    /\ panicked = FALSE
    /\ debug_assertions \in BOOLEAN
    /\ byte = NoVal
    /\ out = None
    /\ prev = new
    /\ lastStatus = NoVal
    /\ dataCount = 0
    /\ prevData = NoVal
    /\ pending = NoVal
    /\ shadow = new
    /\ shadowOut = None
    /\ inserted = FALSE
    /\ StreamIdle
    /\ before = << >>
    /\ rendered = NotRendered
    /\ input = << >>
    /\ parsed = NotParsed
    /\ \/ pc = "render" /\ m \in Messages /\ buffer \in Buffers
       \/ pc = "parse" /\ m = None /\ buffer \in RawBuffers

\* m.render(&mut buffer)
Render ==
    /\ pc = "render"
    /\ rendered' = render(m, buffer)
    /\ buffer' = render(m, buffer).buf
    /\ before' = buffer
    /\ pc' = "rendered"
    /\ UNCHANGED << m, input, parsed, debug_assertions, parserVars, valueVars >>

\* MidiMessage::try_from of the rendered bytes alone, or of the whole
\* buffer.
ParseRendered ==
    /\ pc = "rendered"
    /\ rendered.res = "Ok"
    /\ \E k \in {rendered.n, Len(buffer)} :
            /\ input' = SubSeq(buffer, 1, k)
            /\ parsed' = try_from(SubSeq(buffer, 1, k))
    /\ pc' = "parsed"
    /\ UNCHANGED << m, buffer, before, rendered, debug_assertions, parserVars,
                    valueVars >>

\* MidiMessage::try_from(buffer)
TryFrom ==
    /\ pc = "parse"
    /\ input' = buffer
    /\ parsed' = try_from(buffer)
    /\ pc' = "parsed"
    /\ UNCHANGED << m, buffer, before, rendered, debug_assertions, parserVars,
                    valueVars >>

\* parse_byte of the next rendered byte, on the parser that was new when
\* the first one was fed.
FeedRendered ==
    /\ pc = "parsed"
    /\ rendered.res = "Ok"
    /\ Len(input) = rendered.n
    /\ fed < Len(input)
    /\ Call(input[fed + 1])
    /\ fed' = fed + 1
    /\ emitted' = IF IsMessage(parse_byte(state, input[fed + 1],
                                         debug_assertions).ret)
                   THEN emitted + 1 ELSE emitted
    /\ UNCHANGED << lastStatus, dataCount, prevData, pending,
                    shadow, shadowOut, inserted, streamVars >>

NextCodec == Render \/ ParseRendered \/ TryFrom \/ FeedRendered

SpecCodec == InitCodec /\ [][NextCodec]_vars

(***************************************************************************)
(* The value primitives: build a value from a number, convert it back.     *)
(***************************************************************************)

\* The constructors from a u8; From<u8> for Channel, Control, Program,
\* Value7 and QuarterFrame is the call of new.
ByteCtors == {"Channel::new", "Control::new", "Program::new", "Value7::new",
              "QuarterFrame::new", "Note::new", "Note::from"}

NoteCtors == {"Note::new", "Note::from", "Note::with_name"}

Value14Ctors == {"Value14::new", "Value14::from(u16)", "Value14::from(i16)",
                 "midi::Value14::from(u16)"}

PairBytes == (0 .. MaxLowPair) \cup {52, 64, 85, 87, 126, 127, 128, 255}

U16Inputs == (0 .. MaxLowU16)
             \cup {8191, 8192, 16255, 16256, 16382, 16383, 16384, 16385,
                   32767, 32768, 65535}

I16Inputs == ((0 - MaxLowI16) .. MaxLowI16)
             \cup {0 - 32768, 0 - 8193, 0 - 8192, 0 - 8191,
                   8190, 8191, 8192, 32767}

OctaveInputs == (0 - 128) .. 127

\* The call ctor(arg) in the build dbg.
construct(c, a, dbg) ==
    CASE c = "Channel::new" ->
            IF dbg /\ ~Channel_new_ok(a) THEN Failed ELSE Built(Channel_new(a))
      [] c = "Control::new" ->
            IF dbg /\ ~Control_new_ok(a) THEN Failed ELSE Built(Control_new(a))
      [] c = "Program::new" ->
            IF dbg /\ ~Program_new_ok(a) THEN Failed ELSE Built(Program_new(a))
      [] c = "Value7::new" ->
            IF dbg /\ ~Value7_new_ok(a) THEN Failed ELSE Built(Value7_new(a))
      [] c = "QuarterFrame::new" ->
            IF dbg /\ ~QuarterFrame_new_ok(a) THEN Failed
            ELSE Built(QuarterFrame_new(a))
      [] c = "Note::new" -> Built(Note_new(a))
      [] c = "Note::from" ->
            IF dbg /\ ~Note_from_ok(a) THEN Failed ELSE Built(Note_new(a))
      [] c = "Note::with_name" ->
            IF dbg /\ Note_with_name_overflows(a[1], a[2]) THEN Failed
            ELSE Built(Note_with_name(a[1], a[2]))
      [] c = "Value14::new" ->
            IF dbg /\ ~Value14_new_ok(a[1], a[2]) THEN Failed
            ELSE Built(Value14_new(a[1], a[2]))
      [] c = "Value14::from(u16)" ->
            IF dbg /\ ~Value14_from_u16_ok(a) THEN Failed
            ELSE Built(Value14_from_u16(a))
      [] c = "Value14::from(i16)" ->
            IF dbg /\ (~Value14_from_i16_ok(a) \/ Value14_from_i16_overflows(a))
            THEN Failed
            ELSE Built(Value14_from_i16(a))
      [] c = "midi::Value14::from(u16)" -> Built(midi_Value14_from_u16(a))

InitValue ==
    /\ state = new
    /\ panicked = FALSE
    /\ debug_assertions \in BOOLEAN
    /\ byte = NoVal
    /\ out = None
    /\ prev = new
    /\ lastStatus = NoVal
    /\ dataCount = 0
    /\ prevData = NoVal
    /\ pending = NoVal
    /\ shadow = new
    /\ shadowOut = None
    /\ inserted = FALSE
    /\ StreamIdle
    /\ m = None
    /\ buffer = << >>
    /\ before = << >>
    /\ rendered = NotRendered
    /\ input = << >>
    /\ parsed = NotParsed
    /\ pc = "construct"
    /\ val = NotBuilt
    /\ back = NotConverted
    /\ again = NotBuilt
    /\ \/ ctor \in ByteCtors /\ arg \in 0 .. 255
       \/ ctor = "Note::with_name" /\ arg \in (0 .. 11) \X OctaveInputs
       \/ ctor = "Value14::new" /\ arg \in PairBytes \X PairBytes
       \/ ctor \in {"Value14::from(u16)", "midi::Value14::from(u16)"}
          /\ arg \in U16Inputs
       \/ ctor = "Value14::from(i16)" /\ arg \in I16Inputs

Construct ==
    /\ pc = "construct"
    /\ val' = construct(ctor, arg, debug_assertions)
    /\ pc' = "constructed"
    /\ UNCHANGED << ctor, arg, back, again, debug_assertions, parserVars,
                    m, buffer, before, rendered, input, parsed >>

\* A conversion of the value built into `to`, with result r.
Convert(to, r) ==
    /\ pc = "constructed"
    /\ val.res = "Ok"
    /\ back' = [to |-> to, res |-> r.res, v |-> r.v]
    /\ pc' = "converted"
    /\ UNCHANGED << ctor, arg, val, again, debug_assertions, parserVars,
                    m, buffer, before, rendered, input, parsed >>

\* u8::from(value): the field .0.
IntoU8 ==
    /\ ctor \in ByteCtors \cup {"Note::with_name"}
    /\ Convert("u8", Built(val.v))

\* <(u8, u8)>::from(value)
IntoPair ==
    /\ ctor \in Value14Ctors
    /\ Convert("pair", Built(IF ctor = "midi::Value14::from(u16)"
                             THEN midi_Value14_into(val.v)
                             ELSE Value14_to_pair(val.v)))

\* u16::from(value)
IntoU16 ==
    /\ ctor \in Value14Ctors
    /\ Convert("u16", Built(IF ctor = "midi::Value14::from(u16)"
                            THEN midi_Value14_into_u16(val.v)
                            ELSE Value14_to_u16(val.v)))

\* i16::from(value), of message.rs only.
IntoI16 ==
    /\ ctor \in Value14Ctors \ {"midi::Value14::from(u16)"}
    /\ Convert("i16", Built(Value14_to_i16(val.v)))

\* <(NoteName, i8)>::from(note)
IntoName ==
    /\ ctor \in NoteCtors
    /\ Convert("name", Note_to_name(val.v))

\* Note::with_name of the name and octave converted to.
WithName ==
    /\ pc = "converted"
    /\ back.to = "name" /\ back.res = "Ok"
    /\ again' = Built(Note_with_name(back.v[1], back.v[2]))
    /\ pc' = "rebuilt"
    /\ UNCHANGED << ctor, arg, val, back, debug_assertions, parserVars,
                    m, buffer, before, rendered, input, parsed >>

NextValue ==
    \/ Construct
    \/ IntoU8 \/ IntoPair \/ IntoU16 \/ IntoI16 \/ IntoName
    \/ WithName

SpecValue == InitValue /\ [][NextValue]_vars

(***************************************************************************)
(* What the specification's status byte table (section 6) says of a status *)
(* byte s: the length of its message (0: none), the message it encodes     *)
(* with data bytes d1 and d2, and the state that awaits its first data     *)
(* byte.  These are read off the specification, not off parse_byte.        *)
(***************************************************************************)
TableLen(s) ==
    CASE s \in 128 .. 191 -> 3
      [] s \in 192 .. 223 -> 2
      [] s \in 224 .. 239 -> 3
      [] s \in {241, 243} -> 2
      [] s = 242 -> 3
      [] s \in {246, 248, 250, 251, 252, 254, 255} -> 1
      [] OTHER -> 0

TableMessage(s, d1, d2) ==
    CASE s \in 128 .. 143 -> Msg("NoteOff", s % 16, d1, d2)
      [] s \in 144 .. 159 -> Msg("NoteOn", s % 16, d1, d2)
      [] s \in 160 .. 175 -> Msg("KeyPressure", s % 16, d1, d2)
      [] s \in 176 .. 191 -> Msg("ControlChange", s % 16, d1, d2)
      [] s \in 192 .. 207 -> Msg("ProgramChange", s % 16, d1, NoVal)
      [] s \in 208 .. 223 -> Msg("ChannelPressure", s % 16, d1, NoVal)
      [] s \in 224 .. 239 -> Msg("PitchBendChange", s % 16, d1, d2)
      [] s = 241 -> Msg("QuarterFrame", NoVal, d1, NoVal)
      [] s = 242 -> Msg("SongPositionPointer", NoVal, d1, d2)
      [] s = 243 -> Msg("SongSelect", NoVal, d1, NoVal)
      [] s = 246 -> Unit("TuneRequest")
      [] s = 248 -> Unit("TimingClock")
      [] s = 250 -> Unit("Start")
      [] s = 251 -> Unit("Continue")
      [] s = 252 -> Unit("Stop")
      [] s = 254 -> Unit("ActiveSensing")
      [] s = 255 -> Unit("Reset")
      [] OTHER -> None

TableAwaiting(s) ==
    CASE s \in 128 .. 143 -> St("NoteOffRecvd", s % 16, NoVal)
      [] s \in 144 .. 159 -> St("NoteOnRecvd", s % 16, NoVal)
      [] s \in 160 .. 175 -> St("KeyPressureRecvd", s % 16, NoVal)
      [] s \in 176 .. 191 -> St("ControlChangeRecvd", s % 16, NoVal)
      [] s \in 192 .. 207 -> St("ProgramChangeRecvd", s % 16, NoVal)
      [] s \in 208 .. 223 -> St("ChannelPressureRecvd", s % 16, NoVal)
      [] s \in 224 .. 239 -> St("PitchBendRecvd", s % 16, NoVal)
      [] s = 241 -> St("QuarterFrameRecvd", NoVal, NoVal)
      [] s = 242 -> St("SongPositionRecvd", NoVal, NoVal)
      [] s = 243 -> St("SongSelectRecvd", NoVal, NoVal)
      [] OTHER -> Idle

\* The last byte fed was a data byte.
DataFed == byte \in 0 .. 127

\* The states that hold one data byte of a message in progress.
HoldsData(st) == st.d # NoVal

(***************************************************************************)
(* C1.  In every reachable parser state, parse_byte of a real-time byte     *)
(* 0xF8..0xFF leaves the parser state unchanged; it returns TimingClock,   *)
(* Start, Continue, Stop, ActiveSensing, Reset for 0xF8, 0xFA, 0xFB, 0xFC, *)
(* 0xFE, 0xFF and nothing for the reserved bytes 0xF9 and 0xFD.            *)
(***************************************************************************)
C1_RealTimeLeavesState ==
    byte \in 248 .. 255 =>
        /\ state = prev
        /\ ~panicked
        /\ out = CASE byte = 248 -> Unit("TimingClock")
                   [] byte = 250 -> Unit("Start")
                   [] byte = 251 -> Unit("Continue")
                   [] byte = 252 -> Unit("Stop")
                   [] byte = 254 -> Unit("ActiveSensing")
                   [] byte = 255 -> Unit("Reset")
                   [] OTHER -> None

\* A timing clock fed while the first data byte of a note-on is held.
C1_Witness ==
    /\ byte = 248
    /\ prev = St("NoteOnNoteRecvd", 2, 118)
    /\ state = prev
    /\ out = Unit("TimingClock")

(***************************************************************************)
(* C2.  Real-time bytes interleave transparently.  The shadow parser is fed *)
(* S and the parser S', which is S with real-time bytes inserted anywhere. *)
(* After every byte of S both have returned the same value and are in the  *)
(* same state, so the messages of S' other than those of the inserted      *)
(* bytes are those of S, in order; and an inserted byte returns its own    *)
(* message (nothing, if reserved) when it is fed.                          *)
(***************************************************************************)
C2_RealTimeInterleaves ==
    /\ state = shadow
    /\ ~inserted => out = shadowOut
    /\ inserted => out = TableMessage(byte, NoVal, NoVal)

\* A timing clock inserted between the two data bytes of a note-on: it is
\* emitted at once, and the parser still holds the first data byte, as the
\* shadow parser does, which was not fed the clock.
C2_Witness ==
    /\ inserted
    /\ byte = 248
    /\ out = Unit("TimingClock")
    /\ state = St("NoteOnNoteRecvd", 2, 118)
    /\ shadow = state
    /\ shadowOut = None

(***************************************************************************)
(* C3.  Resynchronisation: from every reachable parser state, feeding the  *)
(* complete uninterrupted encoding of any message (status byte, then its   *)
(* 0, 1 or 2 data bytes, each <= 127) emits nothing on every byte before   *)
(* the last and exactly that message on the last byte.  (lastStatus and    *)
(* dataCount restart at every status byte, so dataCount = k means that the *)
(* k bytes after lastStatus were data bytes, fed without interruption.)    *)
(***************************************************************************)
C3_Resynchronises ==
    /\ (byte = lastStatus /\ TableLen(byte) = 1) =>
            out = TableMessage(byte, NoVal, NoVal)
    /\ (byte = lastStatus /\ TableLen(byte) \in {2, 3}) => out = None
    /\ (DataFed /\ dataCount = 1 /\ TableLen(lastStatus) = 3) => out = None
    /\ (DataFed /\ dataCount = 1 /\ TableLen(lastStatus) = 2) =>
            out = TableMessage(lastStatus, byte, NoVal)
    /\ (DataFed /\ dataCount = 2 /\ TableLen(lastStatus) = 3) =>
            out = TableMessage(lastStatus, prevData, byte)

\* C3 in a build without debug assertions.
C3_ResynchronisesRelease == ~debug_assertions => C3_Resynchronises

\* A note-off on channel 2 emitted on the third byte of 0x82 0x76 0x34.
C3_Witness ==
    /\ lastStatus = 130 /\ dataCount = 2 /\ prevData = 118 /\ byte = 52
    /\ out = Msg("NoteOff", 2, 118, 52)

(***************************************************************************)
(* C4.  Running status for 3-byte messages: after the second data byte     *)
(* completes a NoteOff, NoteOn, KeyPressure, ControlChange, PitchBendChange*)
(* or SongPositionPointer, the parser awaits the first data byte of the    *)
(* same type and channel, and every further pair of data bytes with no     *)
(* status byte in between emits nothing on its first byte and one message  *)
(* of that type and channel, carrying the pair, on its second.             *)
(***************************************************************************)
C4_RunningStatus3 ==
    (DataFed /\ TableLen(lastStatus) = 3 /\ dataCount >= 2) =>
        IF dataCount % 2 = 0
        THEN /\ out = TableMessage(lastStatus, prevData, byte)
             /\ state = TableAwaiting(lastStatus)
        ELSE out = None

\* C4 in a build without debug assertions.
C4_RunningStatus3Release == ~debug_assertions => C4_RunningStatus3

\* The second note-off of a run: two further data bytes after 0x82 d1 d2.
C4_Witness ==
    /\ lastStatus = 130 /\ dataCount = 4 /\ prevData = 52 /\ byte = 118
    /\ out = Msg("NoteOff", 2, 52, 118)
    /\ state = St("NoteOffRecvd", 2, NoVal)

(***************************************************************************)
(* C5.  Running status for 2-byte messages: in the ProgramChange,          *)
(* ChannelPressure, QuarterFrame or SongSelect awaiting-data state, every  *)
(* data byte emits exactly one message of that type (with the stored       *)
(* channel for the two channel-voice types) carrying that byte, and leaves *)
(* the parser state unchanged.                                             *)
(***************************************************************************)
C5_RunningStatus2 ==
    (DataFed /\ prev.tag \in {"ProgramChangeRecvd", "ChannelPressureRecvd",
                               "QuarterFrameRecvd", "SongSelectRecvd"}) =>
        /\ state = prev
        /\ out = CASE prev.tag = "ProgramChangeRecvd" ->
                        Msg("ProgramChange", prev.ch, byte, NoVal)
                   [] prev.tag = "ChannelPressureRecvd" ->
                        Msg("ChannelPressure", prev.ch, byte, NoVal)
                   [] prev.tag = "QuarterFrameRecvd" ->
                        Msg("QuarterFrame", NoVal, byte, NoVal)
                   [] OTHER -> Msg("SongSelect", NoVal, byte, NoVal)

\* C5 in a build without debug assertions.
C5_RunningStatus2Release == ~debug_assertions => C5_RunningStatus2

\* The third program change of a run on channel 15.
C5_Witness ==
    /\ lastStatus = 207 /\ dataCount = 3 /\ byte = 52
    /\ out = Msg("ProgramChange", 15, 52, NoVal)
    /\ state = prev

(***************************************************************************)
(* C6.  A channel-voice status byte (0x80..0xEF) received in any state     *)
(* emits nothing and puts the parser in the awaiting-first-data-byte state *)
(* of the type of its high nibble with the channel of its low nibble.  A   *)
(* data byte held from the message in progress is abandoned: the new state *)
(* holds no data byte and is the same whatever the state before, so no     *)
(* later message can carry the held byte.                                  *)
(***************************************************************************)
C6_ChannelVoiceStartsFresh ==
    byte \in 128 .. 239 =>
        /\ out = None
        /\ ~panicked
        /\ state = TableAwaiting(byte)
        /\ state.ch = byte % 16
        /\ ~HoldsData(state)

\* A note-off status on channel 2 arriving while a note-on held a data byte.
C6_Witness ==
    /\ byte = 130
    /\ prev = St("NoteOnNoteRecvd", 2, 118)
    /\ state = St("NoteOffRecvd", 2, NoVal)

(***************************************************************************)
(* C7.  Byte 0xF6 received in any state emits TuneRequest at once and      *)
(* resets the parser to Idle; the data bytes that follow it emit nothing   *)
(* until the next status byte, so the message in progress when 0xF6        *)
(* arrived is never emitted.                                               *)
(***************************************************************************)
C7_TuneRequestResets ==
    /\ byte = 246 => (out = Unit("TuneRequest") /\ state = Idle)
    /\ (lastStatus = 246 /\ DataFed) => (out = None /\ state = Idle)

\* The dangling 0x34 of 0x92 0x76 0xF6 0x34 (any message in progress).
C7_Witness ==
    /\ lastStatus = 246 /\ dataCount = 1 /\ byte = 52
    /\ out = None /\ state = Idle

(***************************************************************************)
(* C8.  Bytes 0xF0, 0xF7, 0xF4 and 0xF5 received in any state emit nothing *)
(* and reset the parser to Idle: the message in progress is discarded and  *)
(* the data bytes that follow emit nothing.                                *)
(***************************************************************************)
C8_SysExAndUndefinedReset ==
    /\ byte \in {240, 244, 245, 247} => (out = None /\ state = Idle)
    /\ (lastStatus \in {240, 244, 245, 247} /\ DataFed) =>
            (out = None /\ state = Idle)

\* 0xF5 arriving while a note-on held a data byte.
C8_Witness ==
    /\ byte = 245
    /\ prev = St("NoteOnNoteRecvd", 2, 118)
    /\ out = None /\ state = Idle

(***************************************************************************)
(* C9.  Bytes 0xF1, 0xF2 and 0xF3 received in any state emit nothing and   *)
(* move the parser to the QuarterFrame, SongPositionPointer and SongSelect *)
(* awaiting-data state; the channel-voice message in progress is           *)
(* discarded: the next data byte is taken as data of the system-common     *)
(* message and does not complete the earlier channel-voice message.        *)
(***************************************************************************)
C9_SystemCommonDiscards ==
    /\ byte = 241 => (out = None /\ state = St("QuarterFrameRecvd", NoVal, NoVal))
    /\ byte = 242 => (out = None /\ state = St("SongPositionRecvd", NoVal, NoVal))
    /\ byte = 243 => (out = None /\ state = St("SongSelectRecvd", NoVal, NoVal))
    /\ (lastStatus = 241 /\ DataFed /\ dataCount = 1) =>
            out = Msg("QuarterFrame", NoVal, byte, NoVal)
    /\ (lastStatus = 242 /\ DataFed /\ dataCount = 1) =>
            (out = None /\ state = St("SongPositionLsbRecvd", NoVal, byte))
    /\ (lastStatus = 243 /\ DataFed /\ dataCount = 1) =>
            out = Msg("SongSelect", NoVal, byte, NoVal)

\* 0xF3 arriving while a control change held its controller number.
C9_Witness ==
    /\ byte = 243
    /\ prev = St("ControlChangeControlRecvd", 15, 52)
    /\ state = St("SongSelectRecvd", NoVal, NoVal)

(***************************************************************************)
(* C10.  A new parser starts in Idle, and a data byte received in Idle     *)
(* emits nothing and leaves the parser in Idle; so a parser that has       *)
(* received only data bytes since its creation has emitted nothing.        *)
(***************************************************************************)
C10_IdleDropsData ==
    /\ byte = NoVal => state = Idle
    /\ (DataFed /\ prev = Idle) => (out = None /\ state = Idle)
    /\ (lastStatus = NoVal /\ DataFed) => (out = None /\ state = Idle)

\* The fourth data byte fed to a new parser.
C10_Witness ==
    /\ lastStatus = NoVal /\ dataCount = 4 /\ byte = 127
    /\ out = None /\ state = Idle /\ ~panicked

(***************************************************************************)
(* C11.  System-exclusive payload is dropped: after byte 0xF0, every data  *)
(* byte up to the next status byte emits no message and leaves the parser  *)
(* in Idle, where it already was; no payload byte is stored.               *)
(***************************************************************************)
C11_SysExPayloadDropped ==
    /\ byte = 240 => (out = None /\ state = Idle)
    /\ (lastStatus = 240 /\ DataFed) =>
            /\ out = None
            /\ prev = Idle /\ state = Idle
            /\ ~HoldsData(state)
            /\ ~panicked

\* The fourth payload byte of a system exclusive message.
C11_Witness ==
    /\ lastStatus = 240 /\ dataCount = 4 /\ byte = 127
    /\ out = None /\ prev = Idle /\ state = Idle /\ ~panicked

(***************************************************************************)
(* C12.  The streaming parser never panics: every parse_byte call returns  *)
(* normally, whatever bytes were fed before, a data byte of 127 during a   *)
(* ControlChange or ProgramChange included.                                *)
(***************************************************************************)
C12_NeverPanics == ~panicked /\ out # Panicked

(***************************************************************************)
(* C13.  For PitchBendChange and SongPositionPointer the first data byte   *)
(* is the LSB and the second the MSB: for data bytes d1 then d2 the        *)
(* emitted Value14 has the unsigned value d2 * 128 + d1.                   *)
(***************************************************************************)
C13_FirstDataByteIsLsb ==
    (DataFed /\ out.type \in {"PitchBendChange", "SongPositionPointer"}) =>
        Value14_to_u16(<< out.d1, out.d2 >>) = byte * 128 + prevData

(***************************************************************************)
(* C14.  A channel-voice or system-common status byte (0x80..0xF7) is      *)
(* equivalent to resetting the parser to Idle: after such a byte the       *)
(* parser is in the Idle state.                                            *)
(***************************************************************************)
C14_StatusResetsToIdle ==
    byte \in 128 .. 247 => state = Idle

(***************************************************************************)
(* C14, amended.  A status byte 0x80..0xF7 received in any state has the   *)
(* effect it has on a new parser: the message in progress is abandoned and *)
(* no data byte is kept.  The parser is left in Idle by 0xF0, 0xF4, 0xF5,  *)
(* 0xF6 and 0xF7 only; 0x80..0xEF and 0xF1..0xF3 leave it awaiting the     *)
(* first data byte of the message they start.                              *)
(***************************************************************************)
C14_StatusRestarts ==
    byte \in 128 .. 247 =>
        /\ state = parse_byte(new, byte, debug_assertions).state
        /\ out = parse_byte(new, byte, debug_assertions).ret
        /\ state = TableAwaiting(byte)
        /\ ~HoldsData(state)
        /\ (state = Idle) = (byte \in {240, 244, 245, 246, 247})
        /\ ~panicked

\* A note-on status arriving while a control change held its controller
\* number.
C14_Witness ==
    /\ byte = 146
    /\ prev = St("ControlChangeControlRecvd", 15, 52)
    /\ state = St("NoteOnRecvd", 2, NoVal)
    /\ out = None

\* The channel-voice status byte pending was followed by real-time bytes
\* only, and then by the data byte just fed.
StrayDataFed ==
    pending # NoVal /\ lastStatus \in 248 .. 255 /\ DataFed

(***************************************************************************)
(* C15.  After a channel-voice status byte followed by a real-time byte,   *)
(* the next data byte is dropped: it emits no message and is not kept for  *)
(* a later message.                                                        *)
(***************************************************************************)
C15_StrayDataDropped ==
    StrayDataFed => (out = None /\ ~HoldsData(state))

(***************************************************************************)
(* C15, amended.  After a channel-voice status byte followed by real-time  *)
(* bytes, the next data byte is handled as if it had directly followed the *)
(* status byte: it is held as the first data byte of a NoteOff, NoteOn,    *)
(* KeyPressure, ControlChange or PitchBendChange, and it completes a       *)
(* ProgramChange or ChannelPressure, except where the conversion of the    *)
(* data byte fails its debug assertion.                                    *)
(***************************************************************************)
C15_RealTimeKeepsStatus ==
    StrayDataFed =>
        LET r == parse_byte(TableAwaiting(pending), byte, debug_assertions)
        IN  /\ state = r.state /\ out = r.ret /\ panicked = r.panic
            /\ panicked =>
                    /\ debug_assertions /\ byte = 127
                    /\ pending \in 176 .. 207
            /\ (pending \in (128 .. 191) \cup (224 .. 239) /\ ~panicked) =>
                    /\ out = None
                    /\ state.ch = pending % 16 /\ state.d = byte
            /\ (pending \in 192 .. 223 /\ ~panicked) =>
                    /\ out = TableMessage(pending, byte, NoVal)
                    /\ state = TableAwaiting(pending)

\* 0xD2, a timing clock, then the pressure value 0x76.
C15_Witness ==
    /\ pending = 210 /\ lastStatus = 248 /\ byte = 118
    /\ out = Msg("ChannelPressure", 2, 118, NoVal)
    /\ state = St("ChannelPressureRecvd", 2, NoVal)

\* render has been called on m and the buffer.
RenderCalled == rendered.res # "None"

\* try_from has been called on input.
ParseCalled == parsed.res # "None"

(***************************************************************************)
(* C16.  For every message m and every buffer of at least m.len() bytes,   *)
(* render returns Ok(m.len()), where len() is 3 for NoteOff, NoteOn,       *)
(* KeyPressure, ControlChange, PitchBendChange and SongPositionPointer, 2  *)
(* for ProgramChange, ChannelPressure, QuarterFrame and SongSelect, and 1  *)
(* for the seven messages without data.                                    *)
(***************************************************************************)
C16_RenderReturnsLen ==
    RenderCalled =>
        /\ len(m) = (IF m.type \in {"NoteOff", "NoteOn", "KeyPressure",
                                    "ControlChange", "PitchBendChange",
                                    "SongPositionPointer"} THEN 3
                     ELSE IF m.type \in {"ProgramChange", "ChannelPressure",
                                         "QuarterFrame", "SongSelect"} THEN 2
                     ELSE 1)
        /\ Len(buffer) >= len(m) =>
                (rendered.res = "Ok" /\ rendered.n = len(m))

\* A program change rendered into a buffer of four bytes.
C16_Witness ==
    /\ m = Msg("ProgramChange", 2, 127, NoVal)
    /\ rendered = RenderOk(2, << 194, 127, 255, 255 >>)
    /\ buffer = rendered.buf

\* Every field of the message is in its range.
InRange(msg) == msg.ch <= 15 /\ msg.d1 <= 127 /\ msg.d2 <= 127

(***************************************************************************)
(* C17.  Round trip: for every message m with its fields in range,         *)
(* rendering m into a buffer of at least m.len() bytes and parsing that    *)
(* buffer returns Ok(m), both for exactly m.len() bytes and for a longer   *)
(* buffer, whose trailing bytes parse ignores.                             *)
(***************************************************************************)
C17_RoundTrip ==
    (RenderCalled /\ ParseCalled /\ InRange(m)) => parsed = ParseOk(m)

\* A pitch bend parsed back from a buffer with a trailing status byte.
C17_Witness ==
    /\ m = Msg("PitchBendChange", 15, 52, 0)
    /\ rendered.res = "Ok"
    /\ input = << 239, 52, 0, 144 >>
    /\ parsed = ParseOk(m)

(***************************************************************************)
(* C18.  render returns Err(BufferTooShort) if and only if the buffer is   *)
(* shorter than m.len(), for every message and every buffer length.        *)
(***************************************************************************)
C18_RenderTooShort ==
    RenderCalled =>
        ((rendered.res = "BufferTooShort") = (Len(buffer) < len(m)))

\* A note-on rendered into a buffer of two bytes.
C18_Witness ==
    /\ m = Msg("NoteOn", 2, 52, 118)
    /\ Len(buffer) = 2
    /\ rendered = RenderErr(buffer)

(***************************************************************************)
(* C19.  render writes the data bytes of PitchBendChange and               *)
(* SongPositionPointer in the order lsb, msb: for a Value14 of unsigned    *)
(* value v, the byte after the status byte is v mod 128 and the one after  *)
(* that is v div 128.                                                      *)
(***************************************************************************)
C19_RenderLsbFirst ==
    (/\ rendered.res = "Ok"
     /\ m.type \in {"PitchBendChange", "SongPositionPointer"}
     /\ InRange(m)) =>
        LET v == midi_Value14_into_u16(<< m.d1, m.d2 >>)
        IN  /\ << m.d1, m.d2 >> = midi_Value14_from_u16(v)
            /\ buffer[2] = v % 128
            /\ buffer[3] = v \div 128

(***************************************************************************)
(* C20.  parse returns Err(BufferTooShort) on an empty buffer and on every *)
(* buffer whose first byte is the status of a 2-byte or 3-byte message but *)
(* which holds fewer bytes than that message's length; it never reads past *)
(* the end of the buffer.                                                  *)
(***************************************************************************)
C20_ParseTooShort ==
    ParseCalled =>
        /\ Len(input) = 0 => parsed = ParseErr("BufferTooShort")
        /\ (/\ Len(input) > 0
            /\ TableLen(input[1]) \in {2, 3}
            /\ Len(input) < TableLen(input[1])) =>
                parsed = ParseErr("BufferTooShort")
        /\ parsed # ParsePanic("IndexOutOfBounds")

\* A note-on status with one data byte only.
C20_Witness ==
    /\ input = << 146, 52 >>
    /\ parsed = ParseErr("BufferTooShort")

\* The first bytes that match no arm of parse.
NoStatus == (0 .. 127) \cup {240, 244, 245, 247, 249, 253}

(***************************************************************************)
(* C21.  parse of a non-empty buffer returns Err(MessageNotFound) exactly  *)
(* when the first byte matches no status of the table (a byte below 0x80,  *)
(* or 0xF0, 0xF4, 0xF5, 0xF7, 0xF9, 0xFD); for every other first byte it   *)
(* returns either the message of the matching variant or BufferTooShort,   *)
(* never MessageNotFound.                                                  *)
(***************************************************************************)
C21_MessageNotFound ==
    (ParseCalled /\ Len(input) > 0) =>
        /\ (parsed.res = "MessageNotFound") = (input[1] \in NoStatus)
        /\ input[1] \notin NoStatus =>
              \/ /\ parsed.res = "Ok"
                 /\ parsed.msg.type = TableMessage(input[1], 0, 0).type
              \/ parsed = ParseErr("BufferTooShort")

\* The same for the calls that return: a call that panics on a data byte
\* above 127 returns nothing.
C21_MessageNotFoundReturned ==
    (ParseCalled /\ Len(input) > 0) =>
        /\ (parsed.res = "MessageNotFound") = (input[1] \in NoStatus)
        /\ (input[1] \notin NoStatus /\ parsed.res = "Ok") =>
                parsed.msg.type = TableMessage(input[1], 0, 0).type
        /\ (input[1] \notin NoStatus /\ parsed.res \notin {"Ok", "Panicked"}) =>
                parsed = ParseErr("BufferTooShort")

(***************************************************************************)
(* C22.  parse is total and range-safe: for every non-empty buffer of      *)
(* arbitrary bytes it returns Ok or Err without panicking, and every       *)
(* message it returns has channel <= 15 and every data field <= 127.       *)
(***************************************************************************)
C22_ParseRangeSafe ==
    (ParseCalled /\ Len(input) > 0) =>
        /\ parsed.res # "Panicked"
        /\ parsed.res = "Ok" => InRange(parsed.msg)

(***************************************************************************)
(* C23.  parse never returns the error PartialData: for every buffer its   *)
(* result is Ok(message), Err(BufferTooShort) or Err(MessageNotFound).     *)
(***************************************************************************)
C23_NeverPartialData ==
    ParseCalled =>
        /\ parsed.res # "PartialData"
        /\ parsed.res \in {"Ok", "BufferTooShort", "MessageNotFound"}

\* The same for the calls that return.
C23_NeverPartialDataReturned ==
    ParseCalled =>
        /\ parsed.res # "PartialData"
        /\ parsed.res # "Panicked" =>
                parsed.res \in {"Ok", "BufferTooShort", "MessageNotFound"}

\* The constructor ctor has been called on arg.
Constructed == val.res # "None"

Min(a, b) == IF a < b THEN a ELSE b

\* The call with result r returned the value v.
Holds(r, v) == r.res = "Ok" /\ r.v = v

(***************************************************************************)
(* C24.  For every v in 0..255, Channel::new(v) holds min(v, 15): the      *)
(* value read back from a Channel is at most 15 and equals v when v <= 15. *)
(***************************************************************************)
C24_ChannelSaturates ==
    (ctor = "Channel::new" /\ Constructed) =>
        /\ Holds(val, Min(arg, 15))
        /\ back.to = "u8" => (back.v = Min(arg, 15) /\ back.v <= 15)

(***************************************************************************)
(* C24, amended.  Channel::new(v) returns for every v <= 15 in every       *)
(* build, and for v > 15 in a build without debug assertions; whenever it  *)
(* returns, it holds min(v, 15), which is the value read back.  In a build *)
(* with debug assertions Channel::new(v) panics for v > 15.                *)
(***************************************************************************)
C24_ChannelSaturatesOrAsserts ==
    (ctor = "Channel::new" /\ Constructed) =>
        /\ IF debug_assertions /\ arg > 15 THEN val.res = "Panicked"
           ELSE Holds(val, Min(arg, 15))
        /\ back.to = "u8" => (back.v = Min(arg, 15) /\ back.v <= 15)

\* Channel::new(200) read back in a build without debug assertions.
C24_Witness ==
    /\ ctor = "Channel::new" /\ arg = 200 /\ ~debug_assertions
    /\ Holds(val, 15)
    /\ back.to = "u8" /\ back.v = 15

(***************************************************************************)
(* C25.  For every v in 0..255 and each of Value7, Control, Program, Note  *)
(* and QuarterFrame, construction from v holds min(v, 127) and conversion  *)
(* back to u8 returns that value: the top bit of the stored byte is 0.     *)
(***************************************************************************)
C25_SevenBitSaturates ==
    (ctor \in ByteCtors \ {"Channel::new"} /\ Constructed) =>
        /\ Holds(val, Min(arg, 127))
        /\ back.to = "u8" => (back.v = Min(arg, 127) /\ back.v < 128)

(***************************************************************************)
(* C26.  Construction of a value primitive never fails: for every input,   *)
(* in range or out of range, Channel, Control, Program, Value7, Note,      *)
(* QuarterFrame and Value14 construction completes with a value and with   *)
(* no assertion failure; Control and Program accept the value 127.         *)
(***************************************************************************)
C26_ConstructionNeverFails ==
    Constructed => val.res = "Ok"

(***************************************************************************)
(* C27.  For all msb and lsb in 0..127, Value14::new(msb, lsb) converts to *)
(* the u16 msb * 128 + lsb and converts back to the pair (msb, lsb).       *)
(***************************************************************************)
C27_Value14Pair ==
    (/\ ctor = "Value14::new" /\ Constructed
     /\ arg[1] <= 127 /\ arg[2] <= 127) =>
        /\ Holds(val, arg)
        /\ back.to = "u16" => back.v = arg[1] * 128 + arg[2]
        /\ back.to = "pair" => back.v = arg

\* The pair of the test should_combine_7_bit_vals_into_14.
C27_Witness ==
    /\ ctor = "Value14::new" /\ arg = << 85, 87 >>
    /\ back.to = "u16" /\ back.v = 10967

(***************************************************************************)
(* C28.  For every u16 n, converting n to Value14 and back to u16 yields   *)
(* min(n, 16383): 0..16383 round-trip with msb = n div 128 and             *)
(* lsb = n mod 128, and values above 16383 saturate to (127, 127).         *)
(***************************************************************************)
C28_U16Saturates ==
    (/\ ctor \in {"Value14::from(u16)", "midi::Value14::from(u16)"}
     /\ Constructed) =>
        /\ Holds(val, << Min(arg, 16383) \div 128, Min(arg, 16383) % 128 >>)
        /\ back.to = "u16" => back.v = Min(arg, 16383)

(***************************************************************************)
(* C29.  For every i16 n in -8192..8191, i16::from(Value14::from(n)) = n,  *)
(* the stored pair being the 7-bit split of n + 8192; for every i16        *)
(* outside that range the result is the nearest bound, and the bias never  *)
(* overflows.                                                              *)
(***************************************************************************)
C29_I16RoundTrip ==
    (ctor = "Value14::from(i16)" /\ Constructed) =>
        /\ ~Value14_from_i16_overflows(arg)
        /\ Holds(val, << (clamp_i16(arg) + 8192) \div 128,
                          (clamp_i16(arg) + 8192) % 128 >>)
        /\ back.to = "i16" => back.v = clamp_i16(arg)

(***************************************************************************)
(* C29, amended.  For every i16 n in -8192..8191, in every build,          *)
(* i16::from(Value14::from(n)) = n, the stored pair being the 7-bit split  *)
(* of n + 8192, and the bias never overflows.  For an i16 outside that     *)
(* range the result is the nearest bound in a build without debug          *)
(* assertions; in a build with debug assertions Value14::from(n) panics.   *)
(***************************************************************************)
C29_I16RoundTripOrAsserts ==
    (ctor = "Value14::from(i16)" /\ Constructed) =>
        /\ ~Value14_from_i16_overflows(arg)
        /\ IF debug_assertions /\ (arg < 0 - 8192 \/ arg > 8191)
           THEN val.res = "Panicked"
           ELSE Holds(val, << (clamp_i16(arg) + 8192) \div 128,
                              (clamp_i16(arg) + 8192) % 128 >>)
        /\ (arg = 0 /\ val.res = "Ok") => val.v = << 64, 0 >>
        /\ back.to = "i16" => back.v = clamp_i16(arg)
        /\ (back.to = "i16" /\ arg \in (0 - 8192) .. 8191) => back.v = arg

\* -1 converted in a build with debug assertions.
C29_Witness ==
    /\ ctor = "Value14::from(i16)" /\ arg = 0 - 1 /\ debug_assertions
    /\ Holds(val, << 63, 127 >>)
    /\ back.to = "i16" /\ back.v = 0 - 1

(***************************************************************************)
(* C30.  Note-name round trip: for every Note n in 0..127, converting n to *)
(* (NoteName, octave) yields the name n mod 12 and the octave              *)
(* n div 12 - 2, which lies in -2..8, never reaches the panic branch, and  *)
(* Note::with_name of that pair returns n.                                 *)
(***************************************************************************)
C30_NoteNameRoundTrip ==
    (ctor \in NoteCtors /\ back.to = "name") =>
        /\ val.v \in 0 .. 127
        /\ back.res = "Ok"
        /\ Holds(back, << val.v % 12, (val.v \div 12) - 2 >>)
        /\ back.v[2] \in (0 - 2) .. 8
        /\ again.res # "None" => Holds(again, val.v)

\* G8, the highest note.
C30_Witness ==
    /\ ctor = "Note::new" /\ arg = 127
    /\ back.to = "name" /\ Holds(back, << 7, 8 >>)
    /\ Holds(again, 127)

(***************************************************************************)
(* C31.  Note::with_name(name, octave) is clamped for every name and every *)
(* i8 octave: it returns Note 0 when octave < -2, Note 127 when octave > 8 *)
(* or when name + (octave + 2) * 12 exceeds 127, and otherwise the note    *)
(* numbered name + (octave + 2) * 12; the computation never overflows and  *)
(* the result is always in 0..127.                                         *)
(***************************************************************************)
C31_WithNameClamps ==
    (ctor = "Note::with_name" /\ Constructed) =>
        LET name == arg[1]
            octave == arg[2]
            number == name + (octave + 2) * 12
        IN  /\ ~Note_with_name_overflows(name, octave)
            /\ val.res = "Ok"
            /\ val.v \in 0 .. 127
            /\ val.v = (IF octave < 0 - 2 THEN 0
                        ELSE IF octave > 8 \/ number > 127 THEN 127
                        ELSE number)

\* A in octave 8, beyond G8.
C31_Witness ==
    /\ ctor = "Note::with_name" /\ arg = << 9, 8 >>
    /\ Holds(val, 127)

(***************************************************************************)
(* C32.  parse_byte returns a message only for a byte that completes one:  *)
(* it returns nothing for every channel-voice status byte and for          *)
(* 0xF0..0xF5, 0xF7, 0xF9, 0xFD in every state, returns nothing for the    *)
(* first data byte of a 3-byte message, and returns a message only for     *)
(* 0xF6, the six defined real-time bytes, the data byte of a 2-byte        *)
(* message and the second data byte of a 3-byte message.                   *)
(***************************************************************************)
C32_MessageOnlyOnCompletion ==
    /\ byte \in (128 .. 245) \cup {247, 249, 253} => out = None
    /\ (DataFed /\ TableLen(runStatus) = 3 /\ runParity = 1) => out = None
    /\ IsMessage(out) =>
          \/ byte \in {246, 248, 250, 251, 252, 254, 255}
          \/ DataFed /\ TableLen(runStatus) = 2
          \/ DataFed /\ TableLen(runStatus) = 3 /\ runParity = 0

\* The same where the first data byte of a 3-byte message may also end in
\* the panic of Control::new(127): no message is returned.
C32_NoMessageBeforeCompletion ==
    /\ byte \in (128 .. 245) \cup {247, 249, 253} => out = None
    /\ (DataFed /\ TableLen(runStatus) = 3 /\ runParity = 1) =>
          \/ out = None
          \/ /\ out = Panicked /\ debug_assertions
             /\ runStatus \in 176 .. 191 /\ byte = 127
    /\ IsMessage(out) =>
          \/ byte \in {246, 248, 250, 251, 252, 254, 255}
          \/ DataFed /\ TableLen(runStatus) = 2
          \/ DataFed /\ TableLen(runStatus) = 3 /\ runParity = 0

(***************************************************************************)
(* C33.  Every channel-voice message the parser emits has the message type *)
(* and the channel of the most recent status byte below 0xF8 received      *)
(* before it, which is a channel-voice status byte; a QuarterFrame, a      *)
(* SongPositionPointer, a SongSelect is emitted only when that status byte *)
(* is 0xF1, 0xF2, 0xF3.                                                    *)
(***************************************************************************)
C33_MessageOfLastStatus ==
    /\ out.type \in {"NoteOff", "NoteOn", "KeyPressure", "ControlChange",
                     "ProgramChange", "ChannelPressure", "PitchBendChange"} =>
          /\ runStatus \in 128 .. 239
          /\ out.type = TableMessage(runStatus, 0, 0).type
          /\ out.ch = runStatus % 16
    /\ out.type = "QuarterFrame" => runStatus = 241
    /\ out.type = "SongPositionPointer" => runStatus = 242
    /\ out.type = "SongSelect" => runStatus = 243

\* A key pressure on channel 15 under running status.
C33_Witness ==
    /\ out.type = "KeyPressure" /\ out.ch = 15
    /\ runStatus = 175 /\ runPrev # NoVal
    /\ prev.tag = "KeyPressureNoteRecvd"

(***************************************************************************)
(* C34.  Every message the streaming parser emits carries only in-range    *)
(* values: channel <= 15 and every data field <= 127, each equal to the    *)
(* data byte received and not a clamped substitute.                        *)
(***************************************************************************)
C34_EmittedInRange ==
    IsMessage(out) =>
        /\ out.ch \in {NoVal} \cup (0 .. 15)
        /\ out.d1 \in {NoVal} \cup (0 .. 127)
        /\ out.d2 \in {NoVal} \cup (0 .. 127)
        /\ out.d1 # NoVal =>
              out.d1 = (IF out.d2 = NoVal THEN runData ELSE runPrev)
        /\ out.d2 # NoVal => out.d2 = runData
        /\ (DataFed /\ TableLen(runStatus) = 2) => out.d1 # NoVal
        /\ (DataFed /\ TableLen(runStatus) = 3) =>
              (out.d1 # NoVal /\ out.d2 # NoVal)

\* A control change with the top value 127.
C34_Witness ==
    /\ out = Msg("ControlChange", 15, 126, 127)
    /\ runPrev = 126 /\ runData = 127

(***************************************************************************)
(* C35.  In every reachable parser state the state is one of the 17        *)
(* enumerated states and holds at most a channel and one data byte, every  *)
(* held channel <= 15 and every held data byte <= 127; the amount of       *)
(* stored data does not grow with the number of bytes received.            *)
(***************************************************************************)
C35_StateBounded ==
    /\ DOMAIN state = {"tag", "ch", "d"}
    /\ \/ /\ state.tag \in {"Idle", "QuarterFrameRecvd", "SongPositionRecvd",
                            "SongSelectRecvd"}
          /\ state.ch = NoVal /\ state.d = NoVal
       \/ /\ state.tag \in {"NoteOffRecvd", "NoteOnRecvd", "KeyPressureRecvd",
                            "ControlChangeRecvd", "ProgramChangeRecvd",
                            "ChannelPressureRecvd", "PitchBendRecvd"}
          /\ state.ch \in 0 .. 15 /\ state.d = NoVal
       \/ /\ state.tag \in {"NoteOffNoteRecvd", "NoteOnNoteRecvd",
                            "KeyPressureNoteRecvd", "ControlChangeControlRecvd",
                            "PitchBendFirstByteRecvd"}
          /\ state.ch \in 0 .. 15 /\ state.d \in 0 .. 127
       \/ /\ state.tag = "SongPositionLsbRecvd"
          /\ state.ch = NoVal /\ state.d \in 0 .. 127

\* The third data byte of a pitch bend under running status: one byte held.
C35_Witness ==
    /\ state = St("PitchBendFirstByteRecvd", 15, 127)
    /\ runStatus = 239 /\ runPrev # NoVal /\ runParity = 1

\* The bytes that render wrote have been parsed as a buffer and are being
\* fed to the streaming parser.
FeedingRendered ==
    pc = "parsed" /\ rendered.res = "Ok" /\ Len(input) = rendered.n

\* What C36 states for the message m.
StreamAgrees ==
    /\ ~panicked
    /\ fed < Len(input) => emitted = 0
    /\ fed = Len(input) =>
          (emitted = 1 /\ out = m /\ parsed = ParseOk(m))

(***************************************************************************)
(* C36.  The streaming parser and the buffer codec agree: for every        *)
(* message m with in-range fields, feeding the bytes produced by render(m) *)
(* one at a time to a new parser emits exactly one message, on the last    *)
(* byte, and that message equals m and equals the result of the buffer     *)
(* parse of the same bytes.                                                *)
(***************************************************************************)
C36_StreamMatchesCodec ==
    (FeedingRendered /\ InRange(m)) => StreamAgrees

\* The same without debug assertions, and with them for the messages that
\* hold no control or program number 127.
C36_StreamMatchesCodecRelease ==
    (FeedingRendered /\ InRange(m)
        /\ (debug_assertions =>
               ~(m.type \in {"ControlChange", "ProgramChange"} /\ m.d1 = 127)))
    => StreamAgrees

\* All three bytes of a rendered pitch bend have been fed.
C36_Witness ==
    /\ FeedingRendered
    /\ m = Msg("PitchBendChange", 2, 126, 52)
    /\ fed = 3 /\ emitted = 1 /\ out = m

(***************************************************************************)
(* C37.  render touches only what it reports: when it returns              *)
(* Err(BufferTooShort) no byte of the buffer is modified, and when it      *)
(* returns Ok(n) only the first n bytes of the buffer are written and      *)
(* every byte at index >= n keeps its previous value.                      *)
(***************************************************************************)
C37_RenderFrame ==
    RenderCalled =>
        /\ Len(buffer) = Len(before)
        /\ rendered.res = "BufferTooShort" => buffer = before
        /\ rendered.res = "Ok" =>
              \A i \in (rendered.n + 1) .. Len(buffer) : buffer[i] = before[i]

\* A program change rendered into a buffer of four bytes 0xFF: two written,
\* two kept.
C37_Witness ==
    /\ m = Msg("ProgramChange", 2, 52, NoVal)
    /\ rendered.res = "Ok" /\ rendered.n = 2
    /\ before = << 255, 255, 255, 255 >>
    /\ buffer = << 194, 52, 255, 255 >>

\* The status byte of message msg: the status constant of its variant
\* (midi.rs:6-25), with the channel in the low four bits where it has one.
StatusOf(msg) ==
    CASE msg.type = "NoteOff" -> 128 + msg.ch
      [] msg.type = "NoteOn" -> 144 + msg.ch
      [] msg.type = "KeyPressure" -> 160 + msg.ch
      [] msg.type = "ControlChange" -> 176 + msg.ch
      [] msg.type = "ProgramChange" -> 192 + msg.ch
      [] msg.type = "ChannelPressure" -> 208 + msg.ch
      [] msg.type = "PitchBendChange" -> 224 + msg.ch
      [] msg.type = "QuarterFrame" -> 241
      [] msg.type = "SongPositionPointer" -> 242
      [] msg.type = "SongSelect" -> 243
      [] msg.type = "TuneRequest" -> 246
      [] msg.type = "TimingClock" -> 248
      [] msg.type = "Start" -> 250
      [] msg.type = "Continue" -> 251
      [] msg.type = "Stop" -> 252
      [] msg.type = "ActiveSensing" -> 254
      [] msg.type = "Reset" -> 255

\* The bytes written by a successful render are a status byte followed by
\* data bytes.
WellFormed ==
    /\ is_status_byte(buffer[1])
    /\ buffer[1] = StatusOf(m)
    /\ \A i \in 2 .. rendered.n : ~is_status_byte(buffer[i])

(***************************************************************************)
(* C38.  Every successful render writes a well-formed MIDI message: the    *)
(* first byte has its high bit set and equals the variant's status         *)
(* constant OR'd with the channel (exactly the constant for the system     *)
(* messages), and every following byte has its high bit clear, for every   *)
(* message value that can be constructed through the public conversions.   *)
(***************************************************************************)
C38_RenderWellFormed ==
    (RenderCalled /\ rendered.res = "Ok") => WellFormed

\* The same for the messages whose fields are all in range.
C38_RenderWellFormedInRange ==
    (RenderCalled /\ rendered.res = "Ok" /\ InRange(m)) => WellFormed

=============================================================================
